---- MODULE Spec2Model ----
(***************************************************************************)
(* The Graphix-pattern to HUGR converter (graphix_to_hugr).                *)
(*                                                                         *)
(* types.rs: Plane, CliffordGate, Command, Pattern.                        *)
(* hugr.rs: Wire, HugrType, FunctionType, Operation, Node, Hugr and        *)
(* DfgBuilder.                                                             *)
(* converter.rs: GraphixToHugrConverter, ConversionError and               *)
(* convert_graphix_pattern_to_hugr.                                        *)
(*                                                                         *)
(* Rust values are modelled as follows.  A struct is a record with the     *)
(* struct's field names.  An enum value is a record whose "tag" field is   *)
(* the variant name.  A Vec is a sequence.  A HashMap is a function whose  *)
(* DOMAIN is the key set.  A HashSet is a set; where the code iterates     *)
(* over one, the iteration order is an input (any enumeration of the       *)
(* set).  An Option is a sequence of length 0 (None) or 1 (Some).  An f64  *)
(* angle is an integer number of units of 1e-10 radians, so that the       *)
(* comparison with the literal 1e-10 and the negation are exact.           *)
(***************************************************************************)
EXTENDS Integers, Sequences, FiniteSets, TLC

(***************************************************************************)
(* Generic helpers for Vec, HashMap and Option.                            *)
(***************************************************************************)
Range(s) == {s[i] : i \in 1..Len(s)}

\* Vec::sort on a Vec<usize>: ascending, duplicates kept.
Sort(s) == SortSeq(s, LAMBDA a, b : a < b)

\* Vec::dedup: removes consecutive repeated elements.
RECURSIVE Dedup(_)
Dedup(s) ==
    IF Len(s) <= 1 THEN s
    ELSE IF s[1] = s[2] THEN Dedup(Tail(s))
    ELSE <<s[1]>> \o Dedup(Tail(s))

\* vec![x; n]
Repeat(x, n) == [i \in 1..n |-> x]

\* HashMap::new, insert, remove, contains_key
EmptyMap == [k \in {} |-> 0]
MapInsert(m, k, v) == [x \in (DOMAIN m) \cup {k} |-> IF x = k THEN v ELSE m[x]]
MapRemove(m, k) == [x \in (DOMAIN m) \ {k} |-> m[x]]
HasKey(m, k) == k \in DOMAIN m

None == <<>>
Some(x) == <<x>>

(***************************************************************************)
(* hugr.rs                                                                 *)
(***************************************************************************)
Qubit == "Qubit"
Bool == "Bool"
Float64 == "Float64"
HugrType == {Qubit, Bool, Float64}

Wire(node_id, port) == [node_id |-> node_id, port |-> port]

FunctionType(inputs, outputs) == [inputs |-> inputs, outputs |-> outputs]

\* Operation variants
InputOp(types) == [tag |-> "Input", types |-> types]
OutputOp(types) == [tag |-> "Output", types |-> types]
CustomOp(name, signature, extension, args) ==
    [tag |-> "Custom", name |-> name, signature |-> signature,
     extension |-> extension, args |-> args]
ConstOp(value) == [tag |-> "Const", value |-> value]
LoadConstOp(const_node) == [tag |-> "LoadConst", const_node |-> const_node]
DFGOp(signature) == [tag |-> "DFG", signature |-> signature]

\* ConstValue variants
ConstBool(b) == [tag |-> "Bool", b |-> b]
ConstFloat(f) == [tag |-> "Float", f |-> f]

\* Node::new
NodeNew(id, operation) ==
    [id |-> id, operation |-> operation, inputs |-> <<>>, outputs |-> <<>>]

\* Node::out
out(node, port) == Wire(node.id, port)

\* Hugr::new
HugrNew == [nodes |-> EmptyMap, next_node_id |-> 0, root |-> 0]

\* add_node with the increment of next_node_id left out.
add_node_no_increment(hugr, operation) ==
    LET id == hugr.next_node_id
    IN  [hugr |-> [hugr EXCEPT !.nodes = MapInsert(hugr.nodes, id, NodeNew(id, operation))],
         id |-> id]

\* Hugr::add_node: the new graph and the id it returns.
add_node(hugr, operation) ==
    LET id == hugr.next_node_id
    IN  [hugr |-> [hugr EXCEPT !.next_node_id = id + 1,
                               !.nodes = MapInsert(hugr.nodes, id, NodeNew(id, operation))],
         id |-> id]

\* Hugr::len
HugrLen(hugr) == Cardinality(DOMAIN hugr.nodes)

\* DfgBuilder::new
DfgBuilderNew(input_types) ==
    LET r == add_node(HugrNew, InputOp(input_types))
    IN  [hugr |-> r.hugr,
         input_node_id |-> r.id,
         output_node_id |-> None,
         input_wires |-> [i \in 1..Len(input_types) |-> Wire(r.id, i - 1)]]

\* num_outputs with a DFG node given the ports of its signature.
num_outputs_of_signature(operation) ==
    CASE operation.tag \in {"Custom", "DFG"} -> Len(operation.signature.outputs)
      [] operation.tag = "LoadConst" -> 1
      [] OTHER -> 0

\* The number of output ports add_op gives a node (the match in add_op).
num_outputs(operation) ==
    CASE operation.tag = "Custom" -> Len(operation.signature.outputs)
      [] operation.tag = "LoadConst" -> 1
      [] OTHER -> 0

\* DfgBuilder::add_op: the new builder and the node it returns a reference to.
add_op(b, operation, inputs) ==
    LET r == add_node(b.hugr, operation)
        node == [r.hugr.nodes[r.id] EXCEPT
                    !.inputs = inputs,
                    !.outputs = [i \in 1..num_outputs(operation) |-> Wire(r.id, i - 1)]]
        hugr == [r.hugr EXCEPT !.nodes = MapInsert(r.hugr.nodes, r.id, node)]
    IN  [dfg |-> [b EXCEPT !.hugr = hugr], node |-> node]

\* DfgBuilder::add_const: the new builder and the id of the Const node.
add_const(b, value) ==
    LET r == add_node(b.hugr, ConstOp(value))
    IN  [dfg |-> [b EXCEPT !.hugr = r.hugr], id |-> r.id]

\* DfgBuilder::load_const: the new builder and the wire it returns.
load_const(b, const_node_id) ==
    LET r == add_op(b, LoadConstOp(const_node_id), <<>>)
    IN  [dfg |-> r.dfg, wire |-> out(r.node, 0)]

\* The types set_outputs declares on the Output node: Qubit for every wire.
declared_output_types(outputs) == [i \in 1..Len(outputs) |-> Qubit]

\* set_outputs with the Output node made the root of the graph.
set_outputs_as_root(b, outputs) ==
    LET r == add_node(b.hugr, OutputOp(declared_output_types(outputs)))
        node == [r.hugr.nodes[r.id] EXCEPT !.inputs = outputs]
        hugr == [r.hugr EXCEPT !.nodes = MapInsert(r.hugr.nodes, r.id, node), !.root = r.id]
    IN  [b EXCEPT !.hugr = hugr, !.output_node_id = Some(r.id)]

\* DfgBuilder::set_outputs
set_outputs(b, outputs) ==
    LET r == add_node(b.hugr, OutputOp(declared_output_types(outputs)))
        node == [r.hugr.nodes[r.id] EXCEPT !.inputs = outputs]
        hugr == [r.hugr EXCEPT !.nodes = MapInsert(r.hugr.nodes, r.id, node)]
    IN  [b EXCEPT !.hugr = hugr, !.output_node_id = Some(r.id)]

(***************************************************************************)
(* types.rs                                                                *)
(***************************************************************************)
Plane == {"XY", "YZ", "XZ"}
CliffordGate == {"I", "X", "Y", "Z", "S", "SDG", "H"}

\* Command variants
CmdN(node) == [kind |-> "N", node |-> node]
CmdE(a, b) == [kind |-> "E", nodes |-> <<a, b>>]
CmdM(node, plane, angle) == [kind |-> "M", node |-> node, plane |-> plane, angle |-> angle]
CmdX(node, domain) == [kind |-> "X", node |-> node, domain |-> domain]
CmdZ(node, domain) == [kind |-> "Z", node |-> node, domain |-> domain]
CmdC(node, clifford) == [kind |-> "C", node |-> node, clifford |-> clifford]

\* Pattern::new followed by add_command for each element of commands.
PatternOf(input_nodes, output_nodes, commands) ==
    [input_nodes |-> input_nodes, output_nodes |-> output_nodes, commands |-> commands]

(***************************************************************************)
(* converter.rs                                                            *)
(***************************************************************************)
QUANTUM_EXTENSION == "quantum.mbqc"
LOGIC_EXTENSION == "logic"

\* The literal 1e-10 of process_measure, in the unit of the angles.
EPSILON == 1

Abs(x) == IF x < 0 THEN -x ELSE x

\* ConversionError variants and the Result of convert.
OutputNodeNotFound(n) == [tag |-> "Err", error |-> "OutputNodeNotFound", node |-> n]
NodeNotFound(n) == [tag |-> "Err", error |-> "NodeNotFound", node |-> n]
Ok(hugr) == [tag |-> "Ok", hugr |-> hugr]

\* GraphixToHugrConverter::new.  panicked is the thread's state: TRUE once an
\* unwrap of None or an out-of-range index has aborted the call.
ConverterNew ==
    [dfg |-> None, qubit_wires |-> EmptyMap, classical_wires |-> EmptyMap,
     node_order |-> <<>>, panicked |-> FALSE]

Panic(self) == [self EXCEPT !.panicked = TRUE]

\* Gate creation methods
QubitToQubit == FunctionType(<<Qubit>>, <<Qubit>>)
create_h_gate == CustomOp("H", QubitToQubit, QUANTUM_EXTENSION, <<>>)
create_x_gate == CustomOp("X", QubitToQubit, QUANTUM_EXTENSION, <<>>)
create_y_gate == CustomOp("Y", QubitToQubit, QUANTUM_EXTENSION, <<>>)
create_z_gate == CustomOp("Z", QubitToQubit, QUANTUM_EXTENSION, <<>>)
create_s_gate == CustomOp("S", QubitToQubit, QUANTUM_EXTENSION, <<>>)
create_sdg_gate == CustomOp("Sdg", QubitToQubit, QUANTUM_EXTENSION, <<>>)
create_cz_gate ==
    CustomOp("CZ", FunctionType(<<Qubit, Qubit>>, <<Qubit, Qubit>>), QUANTUM_EXTENSION, <<>>)
create_rz_gate(angle) == CustomOp("Rz", QubitToQubit, QUANTUM_EXTENSION, <<angle>>)
create_rx_gate(angle) == CustomOp("Rx", QubitToQubit, QUANTUM_EXTENSION, <<angle>>)
create_ry_gate(angle) == CustomOp("Ry", QubitToQubit, QUANTUM_EXTENSION, <<angle>>)
create_measure_op ==
    CustomOp("Measure", FunctionType(<<Qubit>>, <<Bool>>), QUANTUM_EXTENSION, <<>>)
prepare_op ==
    CustomOp("PrepareQubit", FunctionType(<<>>, <<Qubit>>), QUANTUM_EXTENSION, <<>>)
xor_op ==
    CustomOp("XOR", FunctionType(<<Bool, Bool>>, <<Bool>>), LOGIC_EXTENSION, <<>>)
conditional_op(gate_name) ==
    CustomOp("Conditional" \o gate_name, FunctionType(<<Bool, Qubit>>, <<Qubit>>),
             QUANTUM_EXTENSION, <<>>)

\* process_prepare with the insert into qubit_wires left out.
process_prepare_no_insert(self, node) ==
    IF self.dfg = None THEN Panic(self)
    ELSE LET r == add_op(self.dfg[1], prepare_op, <<>>)
         IN  [self EXCEPT !.dfg = Some(r.dfg),
                          !.node_order = Append(self.node_order, node)]

\* process_prepare with a node that is already bound left as it is.
process_prepare_once(self, node) ==
    IF HasKey(self.qubit_wires, node) THEN self
    ELSE IF self.dfg = None THEN Panic(self)
    ELSE LET r == add_op(self.dfg[1], prepare_op, <<>>)
             wire == out(r.node, 0)
         IN  [self EXCEPT !.dfg = Some(r.dfg),
                          !.qubit_wires = MapInsert(self.qubit_wires, node, wire),
                          !.node_order = Append(self.node_order, node)]

\* process_prepare
process_prepare(self, node) ==
    IF self.dfg = None THEN Panic(self)
    ELSE LET r == add_op(self.dfg[1], prepare_op, <<>>)
             wire == out(r.node, 0)
         IN  [self EXCEPT !.dfg = Some(r.dfg),
                          !.qubit_wires = MapInsert(self.qubit_wires, node, wire),
                          !.node_order = Append(self.node_order, node)]

\* process_entangle with the rebinding of the first endpoint left out.
process_entangle_no_rebind(self, nodes) ==
    LET node1 == nodes[1]
        node2 == nodes[2]
    IN  IF HasKey(self.qubit_wires, node1) /\ HasKey(self.qubit_wires, node2)
        THEN IF self.dfg = None THEN Panic(self)
             ELSE LET q1 == self.qubit_wires[node1]
                      q2 == self.qubit_wires[node2]
                      r == add_op(self.dfg[1], create_cz_gate, <<q1, q2>>)
                  IN  [self EXCEPT
                         !.dfg = Some(r.dfg),
                         !.qubit_wires = MapInsert(self.qubit_wires, node2, out(r.node, 1))]
        ELSE self

\* process_entangle with the two output ports exchanged.
process_entangle_crossed(self, nodes) ==
    LET node1 == nodes[1]
        node2 == nodes[2]
    IN  IF HasKey(self.qubit_wires, node1) /\ HasKey(self.qubit_wires, node2)
        THEN IF self.dfg = None THEN Panic(self)
             ELSE LET q1 == self.qubit_wires[node1]
                      q2 == self.qubit_wires[node2]
                      r == add_op(self.dfg[1], create_cz_gate, <<q1, q2>>)
                  IN  [self EXCEPT
                         !.dfg = Some(r.dfg),
                         !.qubit_wires =
                             MapInsert(MapInsert(self.qubit_wires, node1, out(r.node, 1)),
                                       node2, out(r.node, 0))]
        ELSE self

\* process_entangle
process_entangle(self, nodes) ==
    LET node1 == nodes[1]
        node2 == nodes[2]
    IN  IF HasKey(self.qubit_wires, node1) /\ HasKey(self.qubit_wires, node2)
        THEN IF self.dfg = None THEN Panic(self)
             ELSE LET q1 == self.qubit_wires[node1]
                      q2 == self.qubit_wires[node2]
                      r == add_op(self.dfg[1], create_cz_gate, <<q1, q2>>)
                  IN  [self EXCEPT
                         !.dfg = Some(r.dfg),
                         !.qubit_wires =
                             MapInsert(MapInsert(self.qubit_wires, node1, out(r.node, 0)),
                                       node2, out(r.node, 1))]
        ELSE self

\* needs_rotation with >= in place of >.
needs_rotation_inclusive(angle) == Abs(angle) >= EPSILON

\* needs_rotation that holds for every angle.
needs_rotation_always(angle) == TRUE

\* The basis change of process_measure: the rotation emitted for the plane, if
\* any, and whether an H follows it.
needs_rotation(angle) == Abs(angle) > EPSILON

basis_rotation(plane, angle) ==
    CASE plane = "XY" -> create_rz_gate(-angle)
      [] plane = "YZ" -> create_rx_gate(-angle)
      [] plane = "XZ" -> create_ry_gate(angle)

\* process_measure with the measured node left in qubit_wires.
process_measure_keep_bound(self, node, plane, angle) ==
    IF HasKey(self.qubit_wires, node)
    THEN IF self.dfg = None THEN Panic(self)
         ELSE LET w0 == self.qubit_wires[node]
                  b0 == self.dfg[1]
                  r1 == IF needs_rotation(angle)
                        THEN add_op(b0, basis_rotation(plane, angle), <<w0>>)
                        ELSE [dfg |-> b0, node |-> NodeNew(0, create_h_gate)]
                  w1 == IF needs_rotation(angle) THEN out(r1.node, 0) ELSE w0
                  r2 == IF plane = "XY"
                        THEN add_op(r1.dfg, create_h_gate, <<w1>>)
                        ELSE r1
                  w2 == IF plane = "XY" THEN out(r2.node, 0) ELSE w1
                  r3 == add_op(r2.dfg, create_measure_op, <<w2>>)
              IN  [self EXCEPT
                     !.dfg = Some(r3.dfg),
                     !.classical_wires = MapInsert(self.classical_wires, node, out(r3.node, 0))]
    ELSE self

\* process_measure with the bit of an id measured before left in
\* classical_wires.
process_measure_first_bit(self, node, plane, angle) ==
    IF HasKey(self.qubit_wires, node)
    THEN IF self.dfg = None THEN Panic(self)
         ELSE LET w0 == self.qubit_wires[node]
                  b0 == self.dfg[1]
                  r1 == IF needs_rotation(angle)
                        THEN add_op(b0, basis_rotation(plane, angle), <<w0>>)
                        ELSE [dfg |-> b0, node |-> NodeNew(0, create_h_gate)]
                  w1 == IF needs_rotation(angle) THEN out(r1.node, 0) ELSE w0
                  r2 == IF plane = "XY"
                        THEN add_op(r1.dfg, create_h_gate, <<w1>>)
                        ELSE r1
                  w2 == IF plane = "XY" THEN out(r2.node, 0) ELSE w1
                  r3 == add_op(r2.dfg, create_measure_op, <<w2>>)
              IN  [self EXCEPT
                     !.dfg = Some(r3.dfg),
                     !.classical_wires =
                         IF HasKey(self.classical_wires, node) THEN self.classical_wires
                         ELSE MapInsert(self.classical_wires, node, out(r3.node, 0)),
                     !.qubit_wires = MapRemove(self.qubit_wires, node)]
    ELSE self

\* process_measure
process_measure(self, node, plane, angle) ==
    IF HasKey(self.qubit_wires, node)
    THEN IF self.dfg = None THEN Panic(self)
         ELSE LET w0 == self.qubit_wires[node]
                  b0 == self.dfg[1]
                  r1 == IF needs_rotation(angle)
                        THEN add_op(b0, basis_rotation(plane, angle), <<w0>>)
                        ELSE [dfg |-> b0, node |-> NodeNew(0, create_h_gate)]
                  w1 == IF needs_rotation(angle) THEN out(r1.node, 0) ELSE w0
                  r2 == IF plane = "XY"
                        THEN add_op(r1.dfg, create_h_gate, <<w1>>)
                        ELSE r1
                  w2 == IF plane = "XY" THEN out(r2.node, 0) ELSE w1
                  r3 == add_op(r2.dfg, create_measure_op, <<w2>>)
              IN  [self EXCEPT
                     !.dfg = Some(r3.dfg),
                     !.classical_wires = MapInsert(self.classical_wires, node, out(r3.node, 0)),
                     !.qubit_wires = MapRemove(self.qubit_wires, node)]
    ELSE self

\* xor_loop with the two inputs of the XOR exchanged.
RECURSIVE xor_loop_swapped(_, _, _, _)
xor_loop_swapped(b, classical_wires, xor_result, rest) ==
    IF rest = <<>> THEN [dfg |-> b, wire |-> xor_result]
    ELSE IF HasKey(classical_wires, Head(rest))
         THEN LET r == add_op(b, xor_op, <<classical_wires[Head(rest)], xor_result>>)
              IN  xor_loop_swapped(r.dfg, classical_wires, out(r.node, 0), Tail(rest))
         ELSE xor_loop_swapped(b, classical_wires, xor_result, Tail(rest))

\* The loop of compute_xor_of_measurements over domain_list[1..].
RECURSIVE xor_loop(_, _, _, _)
xor_loop(b, classical_wires, xor_result, rest) ==
    IF rest = <<>> THEN [dfg |-> b, wire |-> xor_result]
    ELSE IF HasKey(classical_wires, Head(rest))
         THEN LET r == add_op(b, xor_op, <<xor_result, classical_wires[Head(rest)]>>)
              IN  xor_loop(r.dfg, classical_wires, out(r.node, 0), Tail(rest))
         ELSE xor_loop(b, classical_wires, xor_result, Tail(rest))

\* domain_list_of with the sort left out.
domain_list_unsorted(iter) == iter

\* The Vec compute_xor_of_measurements folds over: the domain as iterated,
\* then sorted.
domain_list_of(iter) == Sort(iter)

\* The constant-false condition: add_const then load_const.
false_condition(self) ==
    IF self.dfg = None THEN [self |-> Panic(self), wire |-> Wire(0, 0)]
    ELSE LET c == add_const(self.dfg[1], ConstBool(FALSE))
             l == load_const(c.dfg, c.id)
         IN  [self |-> [self EXCEPT !.dfg = Some(l.dfg)], wire |-> l.wire]

\* The part of compute_xor_of_measurements after the is_empty test.
xor_of_list(self, domain_list) ==
    IF domain_list = <<>>
    THEN [self |-> Panic(self), wire |-> Wire(0, 0)]     \* domain_list[0] out of range
    ELSE IF HasKey(self.classical_wires, domain_list[1])
         THEN IF self.dfg = None
              THEN IF \E i \in 2..Len(domain_list) : HasKey(self.classical_wires, domain_list[i])
                   THEN [self |-> Panic(self), wire |-> Wire(0, 0)]
                   ELSE [self |-> self, wire |-> self.classical_wires[domain_list[1]]]
              ELSE LET r == xor_loop(self.dfg[1], self.classical_wires,
                                     self.classical_wires[domain_list[1]], Tail(domain_list))
                   IN  [self |-> [self EXCEPT !.dfg = Some(r.dfg)], wire |-> r.wire]
         ELSE false_condition(self)

\* compute_xor_of_measurements with the is_empty test left out.
compute_xor_no_empty_test(self, domain, iter) == xor_of_list(self, domain_list_of(iter))

\* compute_xor_of_measurements.  iter is domain.iter(): the elements of the
\* HashSet in the order the iteration yields them.
compute_xor_of_measurements(self, domain, iter) ==
    IF domain = {} THEN false_condition(self)
    ELSE xor_of_list(self, domain_list_of(iter))

\* apply_conditional_gate with the two input wires exchanged.
apply_conditional_gate_swapped(self, qubit_wire, condition, gate_name) ==
    IF self.dfg = None THEN [self |-> Panic(self), wire |-> Wire(0, 0)]
    ELSE LET r == add_op(self.dfg[1], conditional_op(gate_name), <<qubit_wire, condition>>)
         IN  [self |-> [self EXCEPT !.dfg = Some(r.dfg)], wire |-> out(r.node, 0)]

\* apply_conditional_gate
apply_conditional_gate(self, qubit_wire, condition, gate_name) ==
    IF self.dfg = None THEN [self |-> Panic(self), wire |-> Wire(0, 0)]
    ELSE LET r == add_op(self.dfg[1], conditional_op(gate_name), <<condition, qubit_wire>>)
         IN  [self |-> [self EXCEPT !.dfg = Some(r.dfg)], wire |-> out(r.node, 0)]

\* rebind_qubit with the insert left out.
rebind_qubit_stale(g, node) == g.self

\* The end of process_pauli_x and process_pauli_z: the insert of the new wire.
\* g is what apply_conditional_gate returned.
rebind_qubit(g, node) ==
    IF g.self.panicked THEN g.self
    ELSE [g.self EXCEPT !.qubit_wires = MapInsert(g.self.qubit_wires, node, g.wire)]

\* process_pauli_x and process_pauli_z once the condition is computed.
\* c is what compute_xor_of_measurements returned.
apply_correction(c, qubit_wire, node, gate_name) ==
    IF c.self.panicked THEN c.self
    ELSE rebind_qubit(apply_conditional_gate(c.self, qubit_wire, c.wire, gate_name), node)

\* process_pauli with the condition computed before the target is looked up.
process_pauli_eager(self, node, domain, iter, gate_name) ==
    IF HasKey(self.qubit_wires, node)
    THEN apply_correction(compute_xor_of_measurements(self, domain, iter),
                          self.qubit_wires[node], node, gate_name)
    ELSE compute_xor_of_measurements(self, domain, iter).self

\* process_pauli_x and process_pauli_z differ in the gate name only.
process_pauli(self, node, domain, iter, gate_name) ==
    IF HasKey(self.qubit_wires, node)
    THEN apply_correction(compute_xor_of_measurements(self, domain, iter),
                          self.qubit_wires[node], node, gate_name)
    ELSE self

process_pauli_x(self, node, domain, iter) == process_pauli(self, node, domain, iter, "X")

process_pauli_z(self, node, domain, iter) == process_pauli(self, node, domain, iter, "Z")

\* clifford_op with the arms of S and SDG exchanged.
clifford_op_swapped(gate) ==
    CASE gate = "H" -> create_h_gate
      [] gate = "S" -> create_sdg_gate
      [] gate = "X" -> create_x_gate
      [] gate = "Y" -> create_y_gate
      [] gate = "Z" -> create_z_gate
      [] gate = "SDG" -> create_s_gate

\* The match of process_clifford.
clifford_op(gate) ==
    CASE gate = "H" -> create_h_gate
      [] gate = "S" -> create_s_gate
      [] gate = "X" -> create_x_gate
      [] gate = "Y" -> create_y_gate
      [] gate = "Z" -> create_z_gate
      [] gate = "SDG" -> create_sdg_gate

\* Whether the loop of process_clifford skips the gate (continue).
is_identity(gate) == gate = "I"

\* The loop of process_clifford.
RECURSIVE clifford_loop(_, _, _)
clifford_loop(b, qubit_wire, gates) ==
    IF gates = <<>> THEN [dfg |-> b, wire |-> qubit_wire]
    ELSE IF is_identity(Head(gates)) THEN clifford_loop(b, qubit_wire, Tail(gates))
         ELSE LET r == add_op(b, clifford_op(Head(gates)), <<qubit_wire>>)
              IN  clifford_loop(r.dfg, out(r.node, 0), Tail(gates))

\* process_clifford
process_clifford(self, node, clifford) ==
    IF HasKey(self.qubit_wires, node)
    THEN IF self.dfg = None
         THEN IF \E i \in 1..Len(clifford) : ~is_identity(clifford[i])
              THEN Panic(self)
              ELSE self
         ELSE LET r == clifford_loop(self.dfg[1], self.qubit_wires[node], clifford)
              IN  [self EXCEPT !.dfg = Some(r.dfg),
                               !.qubit_wires = MapInsert(self.qubit_wires, node, r.wire)]
    ELSE self

\* process_command.  iter is used by X and Z only.
process_command(self, cmd, iter) ==
    CASE cmd.kind = "N" -> process_prepare(self, cmd.node)
      [] cmd.kind = "E" -> process_entangle(self, cmd.nodes)
      [] cmd.kind = "M" -> process_measure(self, cmd.node, cmd.plane, cmd.angle)
      [] cmd.kind = "X" -> process_pauli_x(self, cmd.node, cmd.domain, iter)
      [] cmd.kind = "Z" -> process_pauli_z(self, cmd.node, cmd.domain, iter)
      [] cmd.kind = "C" -> process_clifford(self, cmd.node, cmd.clifford)

\* sorted_outputs with the sort left out.
outputs_unsorted(pattern) == pattern.output_nodes

\* get_measured_nodes with the dedup left out.
get_measured_nodes_no_dedup(pattern) ==
    LET output_set == Range(pattern.output_nodes)
        ms == SelectSeq(pattern.commands,
                        LAMBDA cmd : cmd.kind = "M" /\ cmd.node \notin output_set)
        measured == [i \in 1..Len(ms) |-> ms[i].node]
    IN  Sort(measured)

\* get_measured_nodes with the test against output_set left out.
get_measured_nodes_no_filter(pattern) ==
    LET ms == SelectSeq(pattern.commands, LAMBDA cmd : cmd.kind = "M")
        measured == [i \in 1..Len(ms) |-> ms[i].node]
    IN  Dedup(Sort(measured))

\* The sorted copies convert makes of the pattern's node lists.
sorted_inputs(pattern) == Sort(pattern.input_nodes)

sorted_outputs(pattern) == Sort(pattern.output_nodes)

\* get_measured_nodes
get_measured_nodes(pattern) ==
    LET output_set == Range(pattern.output_nodes)
        ms == SelectSeq(pattern.commands,
                        LAMBDA cmd : cmd.kind = "M" /\ cmd.node \notin output_set)
        measured == [i \in 1..Len(ms) |-> ms[i].node]
    IN  Dedup(Sort(measured))

\* The loop of convert that binds the input qubits; i is the enumerate index.
RECURSIVE bind_inputs(_, _, _, _)
bind_inputs(self, input_nodes, input_wires, i) ==
    IF i >= Len(input_nodes) THEN self
    ELSE IF i >= Len(input_wires) THEN Panic(self)       \* input_wires[i] out of range
    ELSE bind_inputs([self EXCEPT !.qubit_wires =
                         MapInsert(self.qubit_wires, input_nodes[i + 1], input_wires[i + 1])],
                     input_nodes, input_wires, i + 1)

\* convert up to the command loop: the builder and the input bindings.
convert_begin(self, pattern) ==
    LET input_nodes == sorted_inputs(pattern)
        input_types == Repeat(Qubit, Len(input_nodes))
        b == DfgBuilderNew(input_types)
        bound == bind_inputs(self, input_nodes, b.input_wires, 0)
    IN  IF bound.panicked THEN bound ELSE [bound EXCEPT !.dfg = Some(b)]

\* The loop of convert over output_nodes: the wires collected, or the first
\* node that has no qubit wire.
RECURSIVE collect_quantum(_, _, _)
collect_quantum(qubit_wires, output_nodes, output_wires) ==
    IF output_nodes = <<>> THEN [found |-> TRUE, wires |-> output_wires]
    ELSE IF HasKey(qubit_wires, Head(output_nodes))
         THEN collect_quantum(qubit_wires, Tail(output_nodes),
                              Append(output_wires, qubit_wires[Head(output_nodes)]))
         ELSE [found |-> FALSE, node |-> Head(output_nodes)]

\* collect_classical with each wire put in front of those collected so far.
RECURSIVE collect_classical_prepend(_, _, _, _)
collect_classical_prepend(b, classical_wires, measured_nodes, output_wires) ==
    IF measured_nodes = <<>> THEN [dfg |-> b, wires |-> output_wires]
    ELSE IF HasKey(classical_wires, Head(measured_nodes))
         THEN collect_classical_prepend(b, classical_wires, Tail(measured_nodes),
                                        <<classical_wires[Head(measured_nodes)]>> \o output_wires)
         ELSE LET c == add_const(b, ConstBool(FALSE))
                  l == load_const(c.dfg, c.id)
              IN  collect_classical_prepend(l.dfg, classical_wires, Tail(measured_nodes),
                                            <<l.wire>> \o output_wires)

\* The loop of convert over measured_nodes.
RECURSIVE collect_classical(_, _, _, _)
collect_classical(b, classical_wires, measured_nodes, output_wires) ==
    IF measured_nodes = <<>> THEN [dfg |-> b, wires |-> output_wires]
    ELSE IF HasKey(classical_wires, Head(measured_nodes))
         THEN collect_classical(b, classical_wires, Tail(measured_nodes),
                                Append(output_wires, classical_wires[Head(measured_nodes)]))
         ELSE LET c == add_const(b, ConstBool(FALSE))
                  l == load_const(c.dfg, c.id)
              IN  collect_classical(l.dfg, classical_wires, Tail(measured_nodes),
                                    Append(output_wires, l.wire))

\* convert after the command loop: the converter and the value returned.
convert_finish(self, pattern) ==
    LET q == collect_quantum(self.qubit_wires, sorted_outputs(pattern), <<>>)
    IN  IF ~q.found THEN [self |-> self, result |-> OutputNodeNotFound(q.node)]
        ELSE IF self.dfg = None THEN [self |-> Panic(self), result |-> None]
        ELSE LET c == collect_classical(self.dfg[1], self.classical_wires,
                                        get_measured_nodes(pattern), q.wires)
                 b == set_outputs(c.dfg, c.wires)
             IN  [self |-> [self EXCEPT !.dfg = Some(b)], result |-> Ok(b.hugr)]

\* The command loop of convert from position pos on.  order[D] is the order in
\* which iterating the domain D yields its elements.
RECURSIVE run_commands(_, _, _, _)
run_commands(self, commands, pos, order) ==
    IF pos >= Len(commands) \/ self.panicked THEN self
    ELSE LET cmd == commands[pos + 1]
             iter == IF cmd.kind \in {"X", "Z"} THEN order[cmd.domain] ELSE <<>>
         IN  run_commands(process_command(self, cmd, iter), commands, pos + 1, order)

\* convert as one call.
convert(self, pattern, order) ==
    LET began == convert_begin(self, pattern)
        ran == run_commands(began, pattern.commands, 0, order)
    IN  IF ran.panicked THEN [self |-> ran, result |-> None]
        ELSE convert_finish(ran, pattern)

\* convert_graphix_pattern_to_hugr
convert_graphix_pattern_to_hugr(pattern, order) ==
    convert(ConverterNew, pattern, order).result

(***************************************************************************)
(* The patterns the model converts.                                        *)
(***************************************************************************)
\* The longest command sequence of a pattern, after the prefix of its family.
MaxCmds == 3

SeqsUpTo(S, n) == UNION {[1..k -> S] : k \in 0..n}

\* A family of patterns: every pattern whose input list and output list are
\* drawn from the family's sets and whose commands are the family's prefix
\* followed by commands drawn from the family's set.
PrefixedFamily(prefix, inputs, outputs, commands) ==
    [prefix |-> prefix, inputs |-> inputs, outputs |-> outputs, commands |-> commands]

Family(inputs, outputs, commands) == PrefixedFamily(<<>>, inputs, outputs, commands)

\* Graph-state patterns over the ids 0 and 1: preparation, entanglement (with
\* distinct and with equal endpoints), Clifford corrections and a measurement,
\* with input and output lists that are empty, unsorted or hold a duplicate.
GraphPatterns ==
    Family({<<>>, <<1, 0>>, <<1, 1>>},
           {<<>>, <<0>>, <<1, 0>>, <<1, 1>>},
           {CmdN(0), CmdN(1), CmdE(0, 1), CmdE(1, 0), CmdE(1, 1),
            CmdC(0, <<"I", "H">>), CmdC(1, <<"SDG", "I", "S">>),
            CmdM(0, "XY", 0)})

\* Measurement patterns over the ids 0, 1 and 2: measurements in the three
\* planes (angles in units of 1e-10: zero, the threshold itself, beyond it),
\* a preparation, and X and Z corrections whose domains are empty, name
\* measured ids, name ids never measured, or include the target itself.
MeasurementPatterns ==
    Family({<<2>>, <<2, 1, 0>>},
           {<<>>, <<2>>, <<0>>},
           {CmdM(0, "XY", 0), CmdM(1, "YZ", -2), CmdM(2, "XZ", 1), CmdN(0),
            CmdX(2, {0, 1}), CmdX(1, {0, 1, 2}), CmdZ(2, {}), CmdZ(2, {1})})

\* Patterns that measure and prepare the one id 0: every plane with an angle
\* of zero, of exactly 1e-10 and beyond it.
PlanePatterns ==
    Family({<<0>>},
           {<<>>},
           {CmdM(0, plane, angle) : plane \in Plane, angle \in {-2, 0, 1}} \cup {CmdN(0)})

\* Patterns of Clifford commands on the input and output qubit 0 and on the
\* unbound id 1: sequences that are empty, hold only I, and hold every gate.
CliffordPatterns ==
    Family({<<0>>},
           {<<0>>},
           {CmdC(0, <<>>), CmdC(0, <<"I">>), CmdC(0, <<"X", "Y">>),
            CmdC(0, <<"Z", "I", "SDG">>), CmdC(0, <<"H", "S">>), CmdC(1, <<"H">>)})

\* Patterns over the inputs 0 to 3 that begin by measuring 0 and 2 and go on
\* with a measurement of 1 and corrections of 3 whose domains hold one, two
\* or three of the ids 0, 1 and 2.
FoldPatterns ==
    PrefixedFamily(<<CmdM(0, "XY", 0), CmdM(2, "XY", 0)>>,
                   {<<3, 2, 1, 0>>},
                   {<<>>, <<3>>},
                   {CmdM(1, "XY", 0), CmdX(3, {0, 1, 2}), CmdZ(3, {1, 2}), CmdZ(3, {1})})

\* Patterns over the input 1 that begin by preparing and measuring 0 and go
\* on with preparations and measurements of 0 and corrections of 1 on the
\* bit of 0.
RemeasurePatterns ==
    PrefixedFamily(<<CmdN(0), CmdM(0, "XY", 0)>>,
                   {<<1>>},
                   {<<1>>, <<0>>},
                   {CmdN(0), CmdM(0, "YZ", 0), CmdX(1, {0})})

Families ==
    {GraphPatterns, MeasurementPatterns, PlanePatterns, CliffordPatterns, FoldPatterns,
     RemeasurePatterns}

\* Every order in which iterating the set D can yield its elements.
IterOrders(D) ==
    {s \in [1..Cardinality(D) -> D] : Range(s) = D}

(***************************************************************************)
(* The state: one GraphixToHugrConverter and the convert call in flight.   *)
(***************************************************************************)
VARIABLES
    dfg,              \* GraphixToHugrConverter.dfg
    qubit_wires,      \* GraphixToHugrConverter.qubit_wires
    classical_wires,  \* GraphixToHugrConverter.classical_wires
    node_order,       \* GraphixToHugrConverter.node_order
    panicked,         \* whether a panic has aborted the call
    pattern,          \* the argument of the convert call
    pos,              \* how many commands the loop of convert has processed
    pc,               \* "new", "commands", "returned" or "panicked"
    result,           \* the value convert returned
    conversions       \* how many times convert has been called on the converter

vars == <<dfg, qubit_wires, classical_wires, node_order, panicked,
          pattern, pos, pc, result, conversions>>

Self ==
    [dfg |-> dfg, qubit_wires |-> qubit_wires, classical_wires |-> classical_wires,
     node_order |-> node_order, panicked |-> panicked]

SetSelf(s) ==
    /\ dfg' = s.dfg
    /\ qubit_wires' = s.qubit_wires
    /\ classical_wires' = s.classical_wires
    /\ node_order' = s.node_order
    /\ panicked' = s.panicked

NoPattern == PatternOf(<<>>, <<>>, <<>>)

\* GraphixToHugrConverter::new(); convert has not been called.
Init ==
    /\ dfg = ConverterNew.dfg
    /\ qubit_wires = ConverterNew.qubit_wires
    /\ classical_wires = ConverterNew.classical_wires
    /\ node_order = ConverterNew.node_order
    /\ panicked = ConverterNew.panicked
    /\ pattern = NoPattern
    /\ pos = 0
    /\ pc = "new"
    /\ result = None
    /\ conversions = 0

\* The converter enters the command loop of convert(p) in state s.
Begun(s, p) ==
    /\ SetSelf(s)
    /\ pattern' = p
    /\ pos' = 0
    /\ pc' = IF s.panicked THEN "panicked" ELSE "commands"
    /\ result' = None
    /\ conversions' = conversions + 1

\* The call of convert, up to the command loop.
BeginConvert(p) == Begun(convert_begin(Self, p), p)

\* convert on a converter just constructed, as convert_graphix_pattern_to_hugr
\* calls it.
Convert ==
    /\ pc = "new"
    /\ \E f \in Families :
         \E i \in f.inputs, o \in f.outputs, c \in SeqsUpTo(f.commands, MaxCmds) :
            BeginConvert(PatternOf(i, o, f.prefix \o c))

\* NextCmd taking the commands from the end of the pattern.
NextCmdFromEnd == pattern.commands[Len(pattern.commands) - pos]

\* The command the loop of convert processes next.
HasNext == pc = "commands" /\ pos < Len(pattern.commands)
NextCmd == pattern.commands[pos + 1]

\* One iteration of the command loop leaves the converter in state s.
Processed(s) ==
    /\ SetSelf(s)
    /\ pos' = pos + 1
    /\ pc' = IF s.panicked THEN "panicked" ELSE "commands"
    /\ UNCHANGED <<pattern, result, conversions>>

\* The arms of process_command.
ProcessPrepare ==
    /\ HasNext /\ NextCmd.kind = "N"
    /\ Processed(process_prepare(Self, NextCmd.node))

ProcessEntangle ==
    /\ HasNext /\ NextCmd.kind = "E"
    /\ Processed(process_entangle(Self, NextCmd.nodes))

ProcessMeasure ==
    /\ HasNext /\ NextCmd.kind = "M"
    /\ Processed(process_measure(Self, NextCmd.node, NextCmd.plane, NextCmd.angle))

ProcessPauliX ==
    /\ HasNext /\ NextCmd.kind = "X"
    /\ \E iter \in IterOrders(NextCmd.domain) :
          Processed(process_pauli_x(Self, NextCmd.node, NextCmd.domain, iter))

ProcessPauliZ ==
    /\ HasNext /\ NextCmd.kind = "Z"
    /\ \E iter \in IterOrders(NextCmd.domain) :
          Processed(process_pauli_z(Self, NextCmd.node, NextCmd.domain, iter))

ProcessClifford ==
    /\ HasNext /\ NextCmd.kind = "C"
    /\ Processed(process_clifford(Self, NextCmd.node, NextCmd.clifford))

\* convert returns r.result and leaves the converter in state r.self.
Returned(r) ==
    /\ SetSelf(r.self)
    /\ result' = r.result
    /\ pc' = IF r.self.panicked THEN "panicked" ELSE "returned"
    /\ UNCHANGED <<pattern, pos, conversions>>

\* The rest of convert once the loop has ended.
Finish ==
    /\ pc = "commands" /\ pos = Len(pattern.commands)
    /\ Returned(convert_finish(Self, pattern))

Next ==
    \/ Convert
    \/ ProcessPrepare
    \/ ProcessEntangle
    \/ ProcessMeasure
    \/ ProcessPauliX
    \/ ProcessPauliZ
    \/ ProcessClifford
    \/ Finish

Spec == Init /\ [][Next]_vars

(***************************************************************************)
(* One converter used for several conversions in a row.                    *)
(***************************************************************************)
\* How many times convert is called on the one converter.
MaxConversions == 2

\* The longest command sequence of a pattern given to a reused converter.
MaxReuseCmds == 2

ReusePatterns ==
    Family({<<>>, <<0>>},
           {<<>>, <<0>>},
           {CmdN(0), CmdE(0, 0), CmdM(0, "XY", 0), CmdX(0, {0}), CmdZ(0, {}),
            CmdC(0, <<"H">>)})

\* convert on a converter that is new or has returned from an earlier convert.
ConvertAgain ==
    /\ pc \in {"new", "returned"}
    /\ conversions < MaxConversions
    /\ \E i \in ReusePatterns.inputs, o \in ReusePatterns.outputs,
          c \in SeqsUpTo(ReusePatterns.commands, MaxReuseCmds) :
            BeginConvert(PatternOf(i, o, c))

NextReuse ==
    \/ ConvertAgain
    \/ ProcessPrepare
    \/ ProcessEntangle
    \/ ProcessMeasure
    \/ ProcessPauliX
    \/ ProcessPauliZ
    \/ ProcessClifford
    \/ Finish

SpecReuse == Init /\ [][NextReuse]_vars

(***************************************************************************)
(* A DfgBuilder driven directly, by any sequence of its operations.        *)
(***************************************************************************)
\* The most nodes the builder's graph grows to.
MaxBuilderNodes == 4

BuilderInputTypes == {<<>>, <<Qubit, Qubit>>}

\* Custom operations with one and two output ports, and operations of other
\* variants, which have none.
BuilderOperations ==
    {prepare_op, create_cz_gate, InputOp(<<>>), DFGOp(FunctionType(<<Qubit>>, <<Qubit>>))}

BuilderWireLists == {<<>>, <<Wire(0, 0), Wire(1, 1)>>}

BuilderConstValues == {ConstBool(FALSE), ConstFloat(0)}

\* DfgBuilder::new(input_types); no converter is involved.
InitBuilder ==
    /\ \E t \in BuilderInputTypes : dfg = Some(DfgBuilderNew(t))
    /\ qubit_wires = EmptyMap
    /\ classical_wires = EmptyMap
    /\ node_order = <<>>
    /\ panicked = FALSE
    /\ pattern = NoPattern
    /\ pos = 0
    /\ pc = "builder"
    /\ result = None
    /\ conversions = 0

CanBuild == pc = "builder" /\ dfg[1].hugr.next_node_id < MaxBuilderNodes

BuilderBecomes(b) ==
    /\ dfg' = Some(b)
    /\ UNCHANGED <<qubit_wires, classical_wires, node_order, panicked,
                   pattern, pos, pc, result, conversions>>

\* builder.hugr.add_node(op)
BuilderAddNode ==
    /\ CanBuild
    /\ \E op \in BuilderOperations :
          BuilderBecomes([dfg[1] EXCEPT !.hugr = add_node(dfg[1].hugr, op).hugr])

\* builder.add_op(op, inputs)
BuilderAddOp ==
    /\ CanBuild
    /\ \E op \in BuilderOperations, inputs \in BuilderWireLists :
          BuilderBecomes(add_op(dfg[1], op, inputs).dfg)

\* builder.add_const(value)
BuilderAddConst ==
    /\ CanBuild
    /\ \E value \in BuilderConstValues : BuilderBecomes(add_const(dfg[1], value).dfg)

\* builder.load_const(const_node_id), for the id of any node or of none
BuilderLoadConst ==
    /\ CanBuild
    /\ \E id \in {1, 2} : BuilderBecomes(load_const(dfg[1], id).dfg)

\* builder.set_outputs(outputs)
BuilderSetOutputs ==
    /\ CanBuild
    /\ \E outputs \in BuilderWireLists : BuilderBecomes(set_outputs(dfg[1], outputs))

NextBuilder ==
    \/ BuilderAddNode
    \/ BuilderAddOp
    \/ BuilderAddConst
    \/ BuilderLoadConst
    \/ BuilderSetOutputs

SpecBuilder == InitBuilder /\ [][NextBuilder]_vars

(***************************************************************************)
(* Vocabulary of the properties.                                           *)
(***************************************************************************)
Min(S) == CHOOSE x \in S : \A y \in S : x <= y

ReturnedOk == pc = "returned" /\ result.tag = "Ok"

ReturnedErr == pc = "returned" /\ result.tag = "Err"

\* The ids of the nodes of h whose operation has the given tag.
NodesTagged(h, tag) == {n \in DOMAIN h.nodes : h.nodes[n].operation.tag = tag}

\* The ids of the Custom nodes of h with the given name.
NodesNamed(h, name) ==
    {n \in NodesTagged(h, "Custom") : h.nodes[n].operation.name = name}

\* The type of the value on wire w of the graph h: port w.port of the Input
\* node, of a Custom node's signature, or the type of the constant a LoadConst
\* loads; "none" when w names no such port.
PortType(h, w) ==
    IF w.node_id \notin DOMAIN h.nodes THEN "none"
    ELSE LET op == h.nodes[w.node_id].operation
         IN  CASE op.tag = "Input" ->
                    IF w.port < Len(op.types) THEN op.types[w.port + 1] ELSE "none"
               [] op.tag = "Custom" ->
                    IF w.port < Len(op.signature.outputs)
                    THEN op.signature.outputs[w.port + 1] ELSE "none"
               [] op.tag = "LoadConst" ->
                    IF /\ w.port = 0
                       /\ op.const_node \in DOMAIN h.nodes
                       /\ h.nodes[op.const_node].operation.tag = "Const"
                    THEN (IF h.nodes[op.const_node].operation.value.tag = "Bool"
                          THEN Bool ELSE Float64)
                    ELSE "none"
               [] OTHER -> "none"

\* The places (node, input position) of h where wire w is consumed.
Uses(h, w) ==
    UNION {{<<n, i>> : i \in {j \in 1..Len(h.nodes[n].inputs) : h.nodes[n].inputs[j] = w}} :
             n \in DOMAIN h.nodes}

\* The wires consumed somewhere in h.
Consumed(h) ==
    UNION {Range(h.nodes[n].inputs) : n \in DOMAIN h.nodes}

\* The positions of the commands of kind k in the pattern p.
CmdsOfKind(p, k) == {i \in 1..Len(p.commands) : p.commands[i].kind = k}

\* measured(P): the ids that are the subject of an M command of p and are not
\* in p.output_nodes.
MeasuredSet(p) ==
    {p.commands[i].node : i \in CmdsOfKind(p, "M")} \ Range(p.output_nodes)

\* The ids a command refers to as qubits.
Referenced(cmd) ==
    IF cmd.kind = "E" THEN {cmd.nodes[1], cmd.nodes[2]} ELSE {cmd.node}

\* The well-formedness invariants stated for Pattern.
WellFormed(p) ==
    /\ \A i \in 1..Len(p.commands) :
          p.commands[i].kind # "N" =>
             Referenced(p.commands[i]) \subseteq
                Range(p.input_nodes)
                   \cup {p.commands[j].node : j \in {k \in CmdsOfKind(p, "N") : k < i}}
    /\ \A i \in CmdsOfKind(p, "X") \cup CmdsOfKind(p, "Z") :
          p.commands[i].domain \subseteq
             {p.commands[j].node : j \in {k \in CmdsOfKind(p, "M") : k < i}}
    /\ \A i \in CmdsOfKind(p, "M") : p.commands[i].node \notin Range(p.output_nodes)

\* Every output id is an input or is prepared by some N.
OutputsIntroduced(p) ==
    Range(p.output_nodes) \subseteq
       Range(p.input_nodes) \cup {p.commands[j].node : j \in CmdsOfKind(p, "N")}

\* An iteration order for every domain: descending.
Descending(D) == CHOOSE s \in IterOrders(D) : \A i, j \in 1..Len(s) : i < j => s[i] > s[j]
DescendingOrder == [D \in SUBSET {0, 1, 2} |-> Descending(D)]

(***************************************************************************)
(* Properties of a conversion by a converter just constructed (Spec), of   *)
(* a reused converter (SpecReuse) and of the builder alone (SpecBuilder).  *)
(***************************************************************************)

\* C1: when convert returns Ok, the graph has a single Output node; it has
\* |output_nodes| + |measured(P)| input wires, the first |output_nodes| from
\* Qubit ports and all the others from Bool ports.
C1_SignatureShape ==
    ReturnedOk =>
       LET h == result.hugr
           nq == Len(pattern.output_nodes)
       IN  /\ Cardinality(NodesTagged(h, "Output")) = 1
           /\ \A n \in NodesTagged(h, "Output") :
                 /\ Len(h.nodes[n].inputs) = nq + Cardinality(MeasuredSet(pattern))
                 /\ \A i \in 1..Len(h.nodes[n].inputs) :
                       PortType(h, h.nodes[n].inputs[i]) = IF i <= nq THEN Qubit ELSE Bool

\* An Ok result with an output qubit and a measured id that is the subject
\* of more than one M.
C1_Witness ==
    /\ ReturnedOk
    /\ pattern.output_nodes # <<>>
    /\ MeasuredSet(pattern) # {}
    /\ Cardinality(CmdsOfKind(pattern, "M")) > Cardinality(MeasuredSet(pattern))

\* C2: when convert returns Ok, the types the Output node declares are Qubit
\* for each of the first |output_nodes| ports and Bool for each of the
\* |measured(P)| ports that follow.
C2_DeclaredOutputTypes ==
    ReturnedOk =>
       \A n \in NodesTagged(result.hugr, "Output") :
          result.hugr.nodes[n].operation.types =
             Repeat(Qubit, Len(pattern.output_nodes))
                \o Repeat(Bool, Cardinality(MeasuredSet(pattern)))

\* C3: convert on a new converter returns Err(OutputNodeNotFound(id)) exactly
\* when some output id has no qubit wire after the commands, id being the
\* smallest such; otherwise it returns Ok with a graph that has an Output node.
C3_OutputNodeNotFound ==
    pc = "returned" =>
       LET missing == {o \in Range(pattern.output_nodes) : ~HasKey(qubit_wires, o)}
       IN  IF missing # {}
           THEN result = OutputNodeNotFound(Min(missing))
           ELSE result.tag = "Ok" /\ NodesTagged(result.hugr, "Output") # {}

\* The error for an output list given in descending order of which neither id
\* is bound: the smaller id is the one reported.
C3_Witness ==
    /\ ReturnedErr
    /\ pattern.output_nodes = <<1, 0>>
    /\ ~HasKey(qubit_wires, 0) /\ ~HasKey(qubit_wires, 1)
    /\ result.node = 0

\* C4 as stated: for every pattern satisfying the well-formedness invariants
\* stated for Pattern, the conversion returns Ok with a non-empty graph.
C4_WellFormedIsOk ==
    (pc = "returned" /\ WellFormed(pattern)) =>
       (result.tag = "Ok" /\ HugrLen(result.hugr) > 0)

\* C4 amended: for every well-formed pattern each of whose output ids is an
\* input or is prepared by an N, the conversion returns Ok with a non-empty
\* graph.
C4_WellFormedBoundOutputsIsOk ==
    (pc = "returned" /\ WellFormed(pattern) /\ OutputsIntroduced(pattern)) =>
       (result.tag = "Ok" /\ HugrLen(result.hugr) > 0)

\* A well-formed pattern with an output and a correction on measured ids has
\* been converted.
C4_Witness ==
    /\ ReturnedOk
    /\ WellFormed(pattern) /\ OutputsIntroduced(pattern)
    /\ pattern.output_nodes # <<>>
    /\ \E i \in CmdsOfKind(pattern, "X") : pattern.commands[i].domain # {}

\* C5: convert is total: no call panics; the loop processes each command once
\* and then convert returns Ok or Err(OutputNodeNotFound), whatever the
\* pattern; while it has not returned, the loop has a command to process or
\* has ended.
C5_Total ==
    /\ ~panicked /\ pc # "panicked"
    /\ pos <= Len(pattern.commands)
    /\ pc = "commands" =>
          \/ pos = Len(pattern.commands)
          \/ HasNext /\ NextCmd.kind \in {"N", "E", "M", "X", "Z", "C"}
    /\ pc = "returned" =>
          /\ pos = Len(pattern.commands)
          /\ \/ result.tag = "Ok"
             \/ result.tag = "Err" /\ result.error = "OutputNodeNotFound"

\* A pattern with a duplicated input id, a duplicated output id, a CZ of a
\* qubit with itself and a command that breaks the well-formedness invariants
\* has been converted.
C5_Witness ==
    /\ pc = "returned"
    /\ ~WellFormed(pattern)
    /\ pattern.input_nodes = <<1, 1>>
    /\ pattern.output_nodes = <<1, 1>>
    /\ CmdE(1, 1) \in Range(pattern.commands)

\* C6: the result of a conversion is the one a conversion of the same pattern
\* yields when every domain is iterated in another (descending) order: the
\* same graph, field for field, or the same error.
C6_Deterministic ==
    pc = "returned" =>
       result = convert_graphix_pattern_to_hugr(pattern, DescendingOrder)

\* A conversion that emitted an XOR for a domain of two measured ids.
C6_Witness ==
    /\ ReturnedOk
    /\ NodesNamed(result.hugr, "XOR") # {}

\* C7: the second convert on one converter returns what convert returns for
\* the same pattern on a new converter.
C7_NoSharedState ==
    (pc = "returned" /\ conversions = 2) =>
       result = convert(ConverterNew, pattern, DescendingOrder).result

\* C8: after any sequence of builder operations the keys of nodes are exactly
\* 0 .. next_node_id - 1, every node's id is its key, and len() is
\* next_node_id.
C8_NodeIdsDense ==
    dfg # None =>
       LET h == dfg[1].hugr
       IN  /\ DOMAIN h.nodes = 0..(h.next_node_id - 1)
           /\ \A k \in DOMAIN h.nodes : h.nodes[k].id = k
           /\ HugrLen(h) = h.next_node_id

\* A builder that has added nodes by add_op, add_const and set_outputs.
C8_Witness ==
    /\ pc = "builder"
    /\ dfg[1].output_node_id # None
    /\ NodesTagged(dfg[1].hugr, "Const") # {}
    /\ NodesTagged(dfg[1].hugr, "Custom") # {}

\* The wires consumed in h that are produced by a node tagged other than
\* the given tags and named other than the given names.
ConsumedExcept(h, tags, names) ==
    {w \in Consumed(h) :
        w.node_id \in DOMAIN h.nodes =>
           /\ h.nodes[w.node_id].operation.tag \notin tags
           /\ w.node_id \notin UNION {NodesNamed(h, name) : name \in names}}

\* C9 as stated: for a well-formed pattern, every output port of every node
\* that is neither an Output nor a Const node is consumed at most once.
C9_SingleAssignment ==
    (ReturnedOk /\ WellFormed(pattern)) =>
       \A w \in ConsumedExcept(result.hugr, {"Output", "Const"}, {}) :
          Cardinality(Uses(result.hugr, w)) <= 1

NoEqualEndpoints(p) ==
    \A i \in CmdsOfKind(p, "E") : p.commands[i].nodes[1] # p.commands[i].nodes[2]

NoDuplicateOutputs(p) ==
    Cardinality(Range(p.output_nodes)) = Len(p.output_nodes)

\* C9 amended: for a well-formed pattern no E of which has equal endpoints
\* and whose output_nodes holds no id twice, every output port of every node
\* that is neither an Output, a Const nor a Measure node is consumed at most
\* once.
C9_QubitSingleAssignment ==
    (ReturnedOk /\ WellFormed(pattern)
       /\ NoEqualEndpoints(pattern) /\ NoDuplicateOutputs(pattern)) =>
       \A w \in ConsumedExcept(result.hugr, {"Output", "Const"}, {"Measure"}) :
          Cardinality(Uses(result.hugr, w)) <= 1

\* A well-formed pattern with a CZ and two outputs has been converted.
C9_Witness ==
    /\ ReturnedOk /\ WellFormed(pattern)
    /\ NoEqualEndpoints(pattern) /\ NoDuplicateOutputs(pattern)
    /\ Len(pattern.output_nodes) = 2
    /\ NodesNamed(result.hugr, "CZ") # {}

\* The nodes a step adds to the graph under construction.
Emitted == (DOMAIN dfg'[1].hugr.nodes) \ (DOMAIN dfg[1].hugr.nodes)

EmittedTagged(tag) == Emitted \cap NodesTagged(dfg'[1].hugr, tag)

EmittedNamed(name) == Emitted \cap NodesNamed(dfg'[1].hugr, name)

\* C10: an X or Z on a bound target whose domain holds k ids present in
\* classical_wires emits k - 1 XOR nodes and no Const or LoadConst when
\* k >= 1, and one Const(Bool(false)), one LoadConst and no XOR when k = 0.
C10_XorShape ==
    [][(HasNext /\ NextCmd.kind \in {"X", "Z"} /\ HasKey(qubit_wires, NextCmd.node)) =>
         LET k == Cardinality(NextCmd.domain \cap DOMAIN classical_wires)
         IN  IF k >= 1
             THEN /\ Cardinality(EmittedNamed("XOR")) = k - 1
                  /\ EmittedTagged("Const") = {}
                  /\ EmittedTagged("LoadConst") = {}
             ELSE /\ EmittedNamed("XOR") = {}
                  /\ Cardinality(EmittedTagged("Const")) = 1
                  /\ \A n \in EmittedTagged("Const") :
                        dfg'[1].hugr.nodes[n].operation.value = ConstBool(FALSE)
                  /\ Cardinality(EmittedTagged("LoadConst")) = 1]_vars

\* The measurement bits whose XOR the Bool wire w of h denotes: the output of
\* a Measure node denotes itself, a LoadConst of Bool(false) denotes the
\* empty XOR, and an XOR node denotes the bits that occur in exactly one of
\* its two operands.
RECURSIVE Denotes(_, _)
Denotes(h, w) ==
    LET n == h.nodes[w.node_id]
    IN  IF n.operation.tag = "Custom" /\ n.operation.name = "XOR"
        THEN LET a == Denotes(h, n.inputs[1])
                 b == Denotes(h, n.inputs[2])
             IN  (a \ b) \cup (b \ a)
        ELSE IF n.operation.tag = "LoadConst" THEN {}
        ELSE {w}

\* The bits of the ids of the domain D that are present in classical_wires,
\* a bit shared by an even number of ids cancelling.
PresentBits(D) ==
    {w \in {classical_wires[d] : d \in D \cap DOMAIN classical_wires} :
        Cardinality({d \in D \cap DOMAIN classical_wires : classical_wires[d] = w}) % 2 = 1}

\* The X or Z correction the loop processes next has a bound target.
CorrectionOnBound ==
    HasNext /\ NextCmd.kind \in {"X", "Z"} /\ HasKey(qubit_wires, NextCmd.node)

\* C11: the condition wire of the Conditional gate emitted for an X or Z on
\* a bound target denotes the XOR of the bits of the domain ids present in
\* classical_wires, the missing ids counting as false.
C11_MissingBitsAreFalse ==
    [][CorrectionOnBound =>
         /\ Cardinality(EmittedNamed("Conditional" \o NextCmd.kind)) = 1
         /\ \A n \in EmittedNamed("Conditional" \o NextCmd.kind) :
               Denotes(dfg'[1].hugr, dfg'[1].hugr.nodes[n].inputs[1])
                  = PresentBits(NextCmd.domain)]_vars

\* The ids of the nodes a step adds, in the order of emission.
EmittedSeq ==
    [i \in 1..Cardinality(Emitted) |-> dfg[1].hugr.next_node_id + i - 1]

\* The names and args of the nodes a step adds, in the order of emission.
EmittedGates ==
    [i \in 1..Cardinality(Emitted) |->
        LET op == dfg'[1].hugr.nodes[EmittedSeq[i]].operation
        IN  IF op.tag = "Custom" THEN <<op.name, op.args>> ELSE <<op.tag, <<>>>>]

\* The nodes a step adds form a chain of single-input nodes: the first reads
\* the wire from, each other one reads port 0 of the one before it.
EmittedChainFrom(from) ==
    /\ Emitted = Range(EmittedSeq)
    /\ \A i \in 1..Len(EmittedSeq) :
          dfg'[1].hugr.nodes[EmittedSeq[i]].inputs =
             <<IF i = 1 THEN from ELSE Wire(EmittedSeq[i - 1], 0)>>

\* The gates the lowering of M{plane, angle} is to emit.
MeasureLowering(plane, angle) ==
    (IF Abs(angle) > EPSILON
     THEN CASE plane = "XY" -> <<(<<"Rz", <<-angle>>>>)>>
            [] plane = "YZ" -> <<(<<"Rx", <<-angle>>>>)>>
            [] plane = "XZ" -> <<(<<"Ry", <<angle>>>>)>>
     ELSE <<>>)
    \o (IF plane = "XY" THEN <<(<<"H", <<>>>>)>> ELSE <<>>)
    \o <<(<<"Measure", <<>>>>)>>

\* The rotation nodes of the graph h.
Rotations(h) == NodesNamed(h, "Rz") \cup NodesNamed(h, "Rx") \cup NodesNamed(h, "Ry")

\* The M the loop processes next has a bound target.
MeasureOnBound == HasNext /\ NextCmd.kind = "M" /\ HasKey(qubit_wires, NextCmd.node)

\* C12: an M on a bound node emits, chained through port 0 from
\* qubit_wires[node]: for XY an Rz(-angle) iff |angle| > 1e-10, an H and a
\* Measure; for YZ an Rx(-angle) iff |angle| > 1e-10 and a Measure; for XZ an
\* Ry(angle) iff |angle| > 1e-10 and a Measure.  No rotation node of any
\* graph has an angle of magnitude <= 1e-10.
C12_MeasureLowering ==
    [][/\ MeasureOnBound =>
            /\ EmittedGates = MeasureLowering(NextCmd.plane, NextCmd.angle)
            /\ EmittedChainFrom(qubit_wires[NextCmd.node])
       /\ dfg' # None =>
            \A n \in Rotations(dfg'[1].hugr) :
               Abs(dfg'[1].hugr.nodes[n].operation.args[1]) > EPSILON]_vars

\* A conversion that measured in XY beyond the threshold (Rz, H, Measure in a
\* chain) and in XZ at an angle of exactly 1e-10 (no Ry).
C12_Witness ==
    /\ ReturnedOk
    /\ CmdM(0, "XZ", 1) \in Range(pattern.commands)
    /\ NodesNamed(result.hugr, "Ry") = {}
    /\ \E r \in NodesNamed(result.hugr, "Rz"), g \in NodesNamed(result.hugr, "H"),
          m \in NodesNamed(result.hugr, "Measure") :
          /\ result.hugr.nodes[r].operation.args = <<2>>
          /\ result.hugr.nodes[g].inputs = <<Wire(r, 0)>>
          /\ result.hugr.nodes[m].inputs = <<Wire(g, 0)>>

\* C13 as stated: an M on a bound node whose angle has magnitude exactly
\* 1e-10 emits the rotation of its plane (Rz, Rx or Ry).
C13_BoundaryEmits ==
    [][(MeasureOnBound /\ Abs(NextCmd.angle) = EPSILON) =>
          LET name == CASE NextCmd.plane = "XY" -> "Rz"
                        [] NextCmd.plane = "YZ" -> "Rx"
                        [] NextCmd.plane = "XZ" -> "Ry"
          IN  EmittedNamed(name) # {}]_vars

\* C13 amended: an M on a bound node whose angle has magnitude exactly 1e-10
\* emits no rotation: an H and a Measure for XY, a Measure alone for YZ and
\* XZ.
C13_BoundaryElides ==
    [][(MeasureOnBound /\ Abs(NextCmd.angle) = EPSILON) =>
          /\ Emitted \cap Rotations(dfg'[1].hugr) = {}
          /\ EmittedGates =
                (IF NextCmd.plane = "XY" THEN <<(<<"H", <<>>>>)>> ELSE <<>>)
                   \o <<(<<"Measure", <<>>>>)>>]_vars

\* An input qubit has been measured in YZ at exactly 1e-10: the Measure node
\* reads the Input port itself.
C13_Witness ==
    /\ ReturnedOk
    /\ pattern.input_nodes = <<0>>
    /\ pattern.commands = <<CmdM(0, "YZ", 1)>>
    /\ \E m \in NodesNamed(result.hugr, "Measure") :
          result.hugr.nodes[m].inputs = <<Wire(0, 0)>>

\* The gates the lowering of C{cliffords} is to emit: the name of each gate
\* other than I, in order.
CliffordLowering(clifford) ==
    LET gates == SelectSeq(clifford, LAMBDA g : g # "I")
    IN  [i \in 1..Len(gates) |-> <<IF gates[i] = "SDG" THEN "Sdg" ELSE gates[i], <<>>>>]

\* The C the loop processes next has a bound target.
CliffordOnBound == HasNext /\ NextCmd.kind = "C" /\ HasKey(qubit_wires, NextCmd.node)

\* C14: a C on a bound node emits one Qubit -> Qubit node per gate other than
\* I, in sequence order, named H, S, X, Y, Z or Sdg, chained through port 0
\* from qubit_wires[node], and rebinds the node to the last output; with no
\* gate other than I it emits nothing and leaves the binding as it is.  No
\* node named I is in any graph.
C14_CliffordLowering ==
    [][/\ CliffordOnBound =>
            /\ EmittedGates = CliffordLowering(NextCmd.clifford)
            /\ EmittedChainFrom(qubit_wires[NextCmd.node])
            /\ \A n \in Emitted : dfg'[1].hugr.nodes[n].operation.signature = QubitToQubit
            /\ qubit_wires' =
                  [qubit_wires EXCEPT ![NextCmd.node] =
                      IF Emitted = {} THEN @
                      ELSE Wire(EmittedSeq[Len(EmittedSeq)], 0)]
       /\ dfg' # None => NodesNamed(dfg'[1].hugr, "I") = {}]_vars

\* A conversion of the sequences [I] and [Z, I, SDG]: the Sdg node reads the
\* Z node and feeds the output.
C14_Witness ==
    /\ ReturnedOk
    /\ pattern.commands = <<CmdC(0, <<"I">>), CmdC(0, <<"Z", "I", "SDG">>)>>
    /\ \E z \in NodesNamed(result.hugr, "Z"), g \in NodesNamed(result.hugr, "Sdg") :
          /\ result.hugr.nodes[z].inputs = <<Wire(0, 0)>>
          /\ result.hugr.nodes[g].inputs = <<Wire(z, 0)>>
          /\ qubit_wires[0] = Wire(g, 0)

\* The converter after the first k commands of the pattern p.
StateAfter(p, k) ==
    run_commands(convert_begin(ConverterNew, p), SubSeq(p.commands, 1, k), 0, DescendingOrder)

\* The positions of the M commands of p on an id of ids that are not skipped.
MeasuresOn(p, ids) ==
    {k \in CmdsOfKind(p, "M") :
        /\ p.commands[k].node \in ids
        /\ HasKey(StateAfter(p, k - 1).qubit_wires, p.commands[k].node)}

\* The Measure nodes emitted for the ids of ids: the last node of each such M.
MeasureNodesFor(p, ids) ==
    {StateAfter(p, k).dfg[1].hugr.next_node_id - 1 : k \in MeasuresOn(p, ids)}

\* C15: in every Ok result no input wire of the Output node is the output of
\* a Measure node emitted for an id of output_nodes, and the Output inputs
\* from Bool ports are as many as the distinct measured ids outside
\* output_nodes.
C15_MeasuredNotOutput ==
    ReturnedOk =>
       \A n \in NodesTagged(result.hugr, "Output") :
          LET inputs == result.hugr.nodes[n].inputs
          IN  /\ \A i \in 1..Len(inputs) :
                    inputs[i].node_id \notin
                       MeasureNodesFor(pattern, Range(pattern.output_nodes))
              /\ Cardinality({i \in 1..Len(inputs) : PortType(result.hugr, inputs[i]) = Bool})
                    = Cardinality(MeasuredSet(pattern))

\* The output id 0 was measured and prepared again, and another id was
\* measured.
C15_Witness ==
    /\ ReturnedOk
    /\ pattern.output_nodes = <<0>>
    /\ MeasureNodesFor(pattern, {0}) # {}
    /\ MeasureNodesFor(pattern, MeasuredSet(pattern)) # {}

\* Every Custom node of h has as many input and output wires as its
\* signature has input and output types, and each input wire comes from a
\* port of the type the signature gives at its position.
WellTyped(h) ==
    \A n \in NodesTagged(h, "Custom") :
       LET node == h.nodes[n]
           sig == node.operation.signature
       IN  /\ Len(node.inputs) = Len(sig.inputs)
           /\ Len(node.outputs) = Len(sig.outputs)
           /\ \A i \in 1..Len(node.inputs) : PortType(h, node.inputs[i]) = sig.inputs[i]

\* C16: in the graph of every conversion, of a well-formed pattern or not,
\* every Custom node has as many input and output wires as its signature
\* says, and its i-th input wire comes from a port of the i-th input type.
C16_WellTypedWiring ==
    /\ dfg # None => WellTyped(dfg[1].hugr)
    /\ ReturnedOk => WellTyped(result.hugr)

\* A pattern that is not well-formed was converted to a graph with an XOR
\* node feeding a ConditionalX node.
C16_Witness ==
    /\ ReturnedOk
    /\ ~WellFormed(pattern)
    /\ \E x \in NodesNamed(result.hugr, "XOR"), c \in NodesNamed(result.hugr, "ConditionalX") :
          result.hugr.nodes[c].inputs[1] = Wire(x, 0)

\* C17: an M that is not skipped removes its id from qubit_wires and inserts
\* it into classical_wires in the same step, and an id that has left
\* qubit_wires by measurement is never a key of qubit_wires again, whatever
\* command follows.
C17_Lifecycle ==
    [][/\ MeasureOnBound =>
            /\ ~HasKey(qubit_wires', NextCmd.node)
            /\ HasKey(classical_wires', NextCmd.node)
       /\ \A id \in DOMAIN classical_wires : ~HasKey(qubit_wires', id)]_vars

\* The command the loop processes next is skipped: an E with an endpoint
\* absent from qubit_wires, or an M, X, Z or C whose target is absent.
Skipped ==
    /\ HasNext
    /\ \/ /\ NextCmd.kind = "E"
          /\ \E i \in 1..2 : ~HasKey(qubit_wires, NextCmd.nodes[i])
       \/ /\ NextCmd.kind \in {"M", "X", "Z", "C"}
          /\ ~HasKey(qubit_wires, NextCmd.node)

\* C18: a skipped command emits no node, leaves qubit_wires, classical_wires
\* and next_node_id as they are and raises no error: the loop goes on to the
\* next command.
C18_SilentSkip ==
    [][Skipped =>
          /\ dfg' = dfg
          /\ dfg'[1].hugr.next_node_id = dfg[1].hugr.next_node_id
          /\ qubit_wires' = qubit_wires
          /\ classical_wires' = classical_wires
          /\ ~panicked' /\ pc' = "commands" /\ result' = None
          /\ pos' = pos + 1]_vars

\* The loop has just skipped an X whose domain holds a measured id and whose
\* target is unbound; the graph still has only the nodes emitted before it.
C18_Witness ==
    /\ pc = "commands" /\ pos = 2
    /\ pattern.commands[1].kind = "M" /\ HasKey(classical_wires, pattern.commands[1].node)
    /\ pattern.commands[2].kind = "X"
    /\ pattern.commands[2].domain \cap DOMAIN classical_wires # {}
    /\ ~HasKey(StateAfter(pattern, 1).qubit_wires, pattern.commands[2].node)
    /\ dfg[1].hugr = StateAfter(pattern, 1).dfg[1].hugr

\* A step of the builder by one of the operations of DfgBuilder.
DfgBuilderStep ==
    BuilderAddOp \/ BuilderAddConst \/ BuilderLoadConst \/ BuilderSetOutputs

\* C19: once set_outputs has been called on a builder, no later add_op,
\* add_const, load_const or set_outputs adds or changes a node; the graph
\* never holds more than one Output node, and that node has the greatest id.
C19_SetOutputsSeals ==
    [][DfgBuilderStep =>
          /\ dfg[1].output_node_id # None => dfg'[1].hugr = dfg[1].hugr
          /\ Cardinality(NodesTagged(dfg'[1].hugr, "Output")) <= 1
          /\ \A n \in NodesTagged(dfg'[1].hugr, "Output") :
                n = dfg'[1].hugr.next_node_id - 1]_vars

\* The names the last node emitted for a command of the given kind can have.
LastGateOf(cmd) ==
    CASE cmd.kind = "N" -> {"PrepareQubit"}
      [] cmd.kind = "E" -> {"CZ"}
      [] cmd.kind = "M" -> {"Measure"}
      [] cmd.kind = "X" -> {"ConditionalX"}
      [] cmd.kind = "Z" -> {"ConditionalZ"}
      [] cmd.kind = "C" -> {IF g = "SDG" THEN "Sdg" ELSE g : g \in Range(cmd.clifford) \ {"I"}}

\* C20: each step of the loop processes the command at the next position of
\* the pattern, once, and convert finishes only after the last one; every
\* node a step emits has a greater id than every node emitted before it, the
\* nodes emitted before are left as they are, the Input node has id 0, and
\* the nodes of finalization come after all command nodes.
C20_EmissionOrder ==
    [][/\ pc = "commands" =>
            /\ pattern' = pattern
            /\ \A m \in DOMAIN dfg[1].hugr.nodes :
                  /\ m \in DOMAIN dfg'[1].hugr.nodes
                  /\ dfg'[1].hugr.nodes[m] = dfg[1].hugr.nodes[m]
                  /\ \A n \in Emitted : m < n
            /\ IF pos < Len(pattern.commands)
               THEN /\ pos' = pos + 1 /\ pc' = "commands"
                    /\ Emitted # {} =>
                          EmittedGates[Len(EmittedGates)][1]
                             \in LastGateOf(pattern.commands[pos + 1])
               ELSE /\ pos' = pos /\ pc' = "returned"
                    /\ \A n \in Emitted :
                          dfg'[1].hugr.nodes[n].operation.tag
                             \in {"Const", "LoadConst", "Output"}
                    /\ result'.tag = "Ok" => result'.hugr = dfg'[1].hugr
       /\ dfg' # None =>
            /\ NodesTagged(dfg'[1].hugr, "Input") = {0}
            /\ dfg'[1].input_node_id = 0]_vars

\* A conversion whose first command prepared a qubit, whose second measured
\* it and whose finalization emitted a fallback constant: the ids ascend in
\* that order and the Output node comes last.
C20_Witness ==
    /\ ReturnedOk
    /\ Len(pattern.commands) = 3
    /\ pattern.commands[1].kind = "N" /\ pattern.commands[2].kind = "M"
    /\ \E p \in NodesNamed(result.hugr, "PrepareQubit"), m \in NodesNamed(result.hugr, "Measure"),
          c \in NodesTagged(result.hugr, "Const"), o \in NodesTagged(result.hugr, "Output") :
          /\ 0 < p /\ p < m /\ m < c /\ c < o /\ o = result.hugr.next_node_id - 1
          /\ c \notin DOMAIN StateAfter(pattern, 3).dfg[1].hugr.nodes

\* The domain D in ascending order.
Ascending(D) == Sort(CHOOSE s \in IterOrders(D) : TRUE)

\* The ids after the first of the ascending domain D that are present in
\* classical_wires, in ascending order.
PresentTail(D) ==
    SelectSeq(Tail(Ascending(D)), LAMBDA d : HasKey(classical_wires, d))

\* The accumulator of the left fold after i XOR nodes, the first of which
\* has the id first.
FoldAcc(D, first, i) ==
    IF i = 0 THEN classical_wires[Ascending(D)[1]] ELSE Wire(first + i - 1, 0)

\* C21: for an X or Z on a bound target with domain D in ascending order:
\* if D is empty or D[0] is not in classical_wires, the step emits a
\* Const(Bool(false)), a LoadConst of it, and the Conditional gate reading
\* the LoadConst; otherwise it emits, for each later d of D present in
\* classical_wires in ascending order, an XOR of (acc, classical_wires[d]),
\* acc starting at classical_wires[D[0]] and moving to the XOR's port 0,
\* and the Conditional gate reading the last acc.
C21_XorReduction ==
    [][CorrectionOnBound =>
         LET D == NextCmd.domain
             h == dfg'[1].hugr
             first == dfg[1].hugr.next_node_id
         IN  IF D = {} \/ ~HasKey(classical_wires, Ascending(D)[1])
             THEN /\ Emitted = first..(first + 2)
                  /\ h.nodes[first].operation = ConstOp(ConstBool(FALSE))
                  /\ h.nodes[first + 1].operation = LoadConstOp(first)
                  /\ h.nodes[first + 2].inputs[1] = Wire(first + 1, 0)
             ELSE LET k == Len(PresentTail(D))
                  IN  /\ Emitted = first..(first + k)
                      /\ \A i \in 1..k :
                            /\ h.nodes[first + i - 1].operation = xor_op
                            /\ h.nodes[first + i - 1].inputs =
                                  <<FoldAcc(D, first, i - 1),
                                    classical_wires[PresentTail(D)[i]]>>
                      /\ h.nodes[first + k].inputs[1] = FoldAcc(D, first, k)]_vars

\* A correction whose domain {0, 1, 2} is all measured has been folded into
\* two XOR nodes, the second reading the first and the bit of id 2.
C21_Witness ==
    /\ pc = "commands" /\ pos = 4
    /\ pattern.commands[3] = CmdM(1, "XY", 0)
    /\ pattern.commands[4] = CmdX(3, {0, 1, 2})
    /\ \E x \in NodesNamed(dfg[1].hugr, "XOR"), y \in NodesNamed(dfg[1].hugr, "XOR") :
          /\ dfg[1].hugr.nodes[x].inputs = <<classical_wires[0], classical_wires[1]>>
          /\ dfg[1].hugr.nodes[y].inputs = <<Wire(x, 0), classical_wires[2]>>
          /\ qubit_wires[3] = Wire(y + 1, 0)

\* The E the loop processes next has both endpoints bound.
EntangleOnBound ==
    /\ HasNext /\ NextCmd.kind = "E"
    /\ HasKey(qubit_wires, NextCmd.nodes[1]) /\ HasKey(qubit_wires, NextCmd.nodes[2])

\* The step emits one CZ node reading the wires of a and b and changes no
\* binding other than those of a and b.
EmitsOneCZ(a, b) ==
    LET first == dfg[1].hugr.next_node_id
    IN  /\ Emitted = {first}
        /\ first \in NodesNamed(dfg'[1].hugr, "CZ")
        /\ dfg'[1].hugr.nodes[first].inputs = <<qubit_wires[a], qubit_wires[b]>>
        /\ DOMAIN qubit_wires' = DOMAIN qubit_wires
        /\ \A i \in DOMAIN qubit_wires \ {a, b} : qubit_wires'[i] = qubit_wires[i]
        /\ classical_wires' = classical_wires

\* The positions up to pos of the E commands of the pattern that touched
\* the id i and were not skipped.
TouchedBy(i) ==
    {k \in 1..pos :
        /\ pattern.commands[k].kind = "E"
        /\ i \in Range(pattern.commands[k].nodes)
        /\ \A e \in Range(pattern.commands[k].nodes) :
              HasKey(StateAfter(pattern, k - 1).qubit_wires, e)}

\* The id of the CZ node the command at position k emitted.
CZNodeOf(k) == StateAfter(pattern, k).dfg[1].hugr.next_node_id - 1

Max(S) == CHOOSE x \in S : \A y \in S : y <= x

\* Only N and E commands have been processed so far, and the id i was
\* touched by an E after which no N prepared it again.
LastBoundByCZ(i) ==
    /\ pc = "commands"
    /\ \A k \in 1..pos : pattern.commands[k].kind \in {"N", "E"}
    /\ TouchedBy(i) # {}
    /\ \A k \in (Max(TouchedBy(i)) + 1)..pos : pattern.commands[k] # CmdN(i)

C23_ConditionalWiring ==
    [][CorrectionOnBound =>
         LET h == dfg'[1].hugr
             gate == h.next_node_id - 1
             first == dfg[1].hugr.next_node_id
         IN  /\ EmittedNamed("ConditionalX") \cup EmittedNamed("ConditionalZ") = {gate}
             /\ h.nodes[gate].operation = conditional_op(NextCmd.kind)
             /\ Emitted = first..gate
             /\ Len(h.nodes[gate].inputs) = 2
             /\ IF gate = first
                THEN \E d \in NextCmd.domain \cap DOMAIN classical_wires :
                        h.nodes[gate].inputs[1] = classical_wires[d]
                ELSE /\ h.nodes[gate].inputs[1] = Wire(gate - 1, 0)
                     /\ \/ gate - 1 \in NodesNamed(h, "XOR")
                        \/ gate - 1 \in NodesTagged(h, "LoadConst")
             /\ h.nodes[gate].inputs[2] = qubit_wires[NextCmd.node]
             /\ qubit_wires' = MapInsert(qubit_wires, NextCmd.node, Wire(gate, 0))
             /\ classical_wires' = classical_wires]_vars

\* After M on 0, an X on the input 2 conditioned on {0, 1} has emitted a
\* ConditionalX reading the bit of 0 and the input wire of 2, and 2 is bound
\* to its port 0 while the input 1 keeps its wire.
C23_Witness ==
    /\ pc = "commands" /\ pos = 2
    /\ pattern.input_nodes = <<2, 1, 0>>
    /\ pattern.commands[1] = CmdM(0, "XY", 0)
    /\ pattern.commands[2] = CmdX(2, {0, 1})
    /\ \E g \in NodesNamed(dfg[1].hugr, "ConditionalX") :
          /\ dfg[1].hugr.nodes[g].inputs = <<classical_wires[0], Wire(0, 2)>>
          /\ qubit_wires[2] = Wire(g, 0)
          /\ qubit_wires[1] = Wire(0, 1)

\* The ids of the M commands of the pattern that are not output nodes, in
\* ascending order.
MeasuredAscending ==
    Ascending({pattern.commands[k].node : k \in CmdsOfKind(pattern, "M")}
                 \ Range(pattern.output_nodes))

\* The ids of MeasuredAscending that have no classical wire, in ascending
\* order.
MissingAscending ==
    SelectSeq(MeasuredAscending, LAMBDA m : ~HasKey(classical_wires, m))

\* The position of the id m in the sequence s that holds it once.
IndexOf(s, m) == CHOOSE j \in 1..Len(s) : s[j] = m

\* C24: when convert returns Ok, the Output node's inputs are qubit_wires[o]
\* for the output nodes o in ascending order, however they were given, then
\* for the measured ids m in ascending order classical_wires[m] if present
\* and else port 0 of a LoadConst of a Const(Bool(false)); the step emits one
\* such pair per missing id, each before the Output node, and nothing else.
C24_OutputOrdering ==
    [][(pc = "commands" /\ pc' = "returned" /\ result'.tag = "Ok") =>
         LET h == result'.hugr
             first == dfg[1].hugr.next_node_id
             outs == Sort(pattern.output_nodes)
             missing == MissingAscending
             output == first + 2 * Len(missing)
             FallbackOf(m) == first + 2 * IndexOf(missing, m) - 1
         IN  /\ Emitted = first..output
             /\ NodesTagged(h, "Output") = {output}
             /\ \A m \in Range(missing) :
                   /\ h.nodes[FallbackOf(m) - 1].operation = ConstOp(ConstBool(FALSE))
                   /\ h.nodes[FallbackOf(m)].operation = LoadConstOp(FallbackOf(m) - 1)
             /\ h.nodes[output].inputs =
                   [i \in 1..Len(outs) |-> qubit_wires[outs[i]]]
                   \o [j \in 1..Len(MeasuredAscending) |->
                         LET m == MeasuredAscending[j]
                         IN  IF HasKey(classical_wires, m) THEN classical_wires[m]
                             ELSE Wire(FallbackOf(m), 0)]]_vars

\* convert returned Ok for the input and output 2 and the commands N(0),
\* M(0) and M on the unbound 1: the Output node reads the wire of 2, the bit
\* of 0 and a LoadConst of a Const(Bool(false)) emitted just before it.
C24_Witness ==
    /\ ReturnedOk
    /\ pattern.input_nodes = <<2>> /\ pattern.output_nodes = <<2>>
    /\ pattern.commands = <<CmdN(0), CmdM(0, "XY", 0), CmdM(1, "YZ", -2)>>
    /\ LET output == result.hugr.next_node_id - 1
       IN  /\ result.hugr.nodes[output].inputs =
                 <<Wire(0, 0), classical_wires[0], Wire(output - 1, 0)>>
           /\ result.hugr.nodes[output - 1].operation = LoadConstOp(output - 2)
           /\ result.hugr.nodes[output - 2].operation = ConstOp(ConstBool(FALSE))

\* The number of output ports the node of an operation is to have.
PortsOf(operation) ==
    IF operation.tag = "Custom" THEN Len(operation.signature.outputs)
    ELSE IF operation.tag = "LoadConst" THEN 1
    ELSE 0

\* The node n of the graph h has the output ports of its operation, port i
\* being Wire{n, i}.
HasItsPorts(h, n) ==
    h.nodes[n].outputs = [i \in 1..PortsOf(h.nodes[n].operation) |-> Wire(n, i - 1)]

\* C25: a builder just constructed holds nodes with the output ports of
\* their operations; every step by add_op, add_const, load_const or
\* set_outputs leaves the nodes there as they are and adds one node with the
\* ports of its operation (the signature's outputs for Custom, 1 for
\* LoadConst, 0 for the others).  add_op stores the inputs given, add_const
\* returns the id of a new Const node of the value without inputs and
\* outputs, and load_const returns port 0 of the new LoadConst node.
C25_OutputPorts ==
    [][/\ dfg[1].hugr.next_node_id = 1 => HasItsPorts(dfg[1].hugr, 0)
       /\ DfgBuilderStep =>
            LET h == dfg'[1].hugr
                new == dfg[1].hugr.next_node_id
            IN  /\ Emitted = {new}
                /\ HasItsPorts(h, new)
                /\ \A n \in DOMAIN dfg[1].hugr.nodes : h.nodes[n] = dfg[1].hugr.nodes[n]
                /\ \A op \in BuilderOperations, inputs \in BuilderWireLists :
                      dfg'[1] = add_op(dfg[1], op, inputs).dfg =>
                         /\ h.nodes[new].inputs = inputs
                         /\ h.nodes[new].operation = op
                         /\ add_op(dfg[1], op, inputs).node = h.nodes[new]
                /\ \A value \in BuilderConstValues :
                      dfg'[1] = add_const(dfg[1], value).dfg =>
                         /\ add_const(dfg[1], value).id = new
                         /\ h.nodes[new] = [id |-> new, operation |-> ConstOp(value),
                                            inputs |-> <<>>, outputs |-> <<>>]
                /\ \A id \in {1, 2} :
                      dfg'[1] = load_const(dfg[1], id).dfg =>
                         /\ load_const(dfg[1], id).wire = Wire(new, 0)
                         /\ h.nodes[new].operation = LoadConstOp(id)
                         /\ h.nodes[new].outputs = <<Wire(new, 0)>>]_vars

\* A builder over two inputs to which add_op added a CZ reading two wires,
\* and which then got a DFG node and a LoadConst: the CZ has two ports, the
\* DFG node none and the LoadConst one.
C25_Witness ==
    /\ pc = "builder" /\ dfg[1].hugr.next_node_id = 4
    /\ dfg[1].hugr.nodes[0].operation = InputOp(<<Qubit, Qubit>>)
    /\ dfg[1].hugr.nodes[1].operation = create_cz_gate
    /\ dfg[1].hugr.nodes[1].inputs = <<Wire(0, 0), Wire(1, 1)>>
    /\ dfg[1].hugr.nodes[1].outputs = <<Wire(1, 0), Wire(1, 1)>>
    /\ dfg[1].hugr.nodes[2].operation.tag = "DFG"
    /\ dfg[1].hugr.nodes[2].outputs = <<>>
    /\ dfg[1].hugr.nodes[3].operation = LoadConstOp(1)
    /\ dfg[1].hugr.nodes[3].outputs = <<Wire(3, 0)>>

\* convert has bound the inputs and processed no command yet.
BeforeFirstCommand == pc = "commands" /\ pos = 0

\* The Input node declares Qubit once per element of input_nodes, no id
\* other than those of input_nodes is bound and classical_wires is empty.
InputFrame ==
    /\ dfg[1].hugr.nodes[0].operation =
          InputOp([i \in 1..Len(pattern.input_nodes) |-> Qubit])
    /\ DOMAIN qubit_wires = Range(pattern.input_nodes)
    /\ classical_wires = EmptyMap

\* C26: before the first command of a conversion the Input node declares
\* Qubit once per element of input_nodes, qubit_wires maps the id at every
\* position i of the ascending input_nodes to Wire{0, i} and holds no other
\* key, and classical_wires is empty.
C26_InitialBinding ==
    BeforeFirstCommand =>
       /\ InputFrame
       /\ \A i \in 1..Len(pattern.input_nodes) :
             qubit_wires[Sort(pattern.input_nodes)[i]] = Wire(0, i - 1)

\* C27: every N{node}, whether node is unbound, bound or measured, emits
\* exactly one PrepareQubit node without inputs and with one output port;
\* qubit_wires[node] becomes that port, whatever it was, and classical_wires
\* and the bindings of the other ids stay as they are.
C27_Preparation ==
    [][(HasNext /\ NextCmd.kind = "N") =>
         LET first == dfg[1].hugr.next_node_id
             n == dfg'[1].hugr.nodes[first]
         IN  /\ Emitted = {first}
             /\ n.operation.tag = "Custom" /\ n.operation.name = "PrepareQubit"
             /\ n.operation.signature = FunctionType(<<>>, <<Qubit>>)
             /\ n.inputs = <<>>
             /\ n.outputs = <<Wire(first, 0)>>
             /\ DOMAIN qubit_wires' = DOMAIN qubit_wires \cup {NextCmd.node}
             /\ qubit_wires'[NextCmd.node] = Wire(first, 0)
             /\ \A i \in DOMAIN qubit_wires \ {NextCmd.node} : qubit_wires'[i] = qubit_wires[i]
             /\ classical_wires' = classical_wires]_vars

\* N(0) was processed with the inputs 0 and 1 bound: 0 has left port 0 of
\* the Input node for the port of the PrepareQubit node, which no binding
\* names any more, and 1 keeps its wire.
C27_Witness ==
    /\ pc = "commands" /\ pos = 1
    /\ pattern.input_nodes = <<1, 0>>
    /\ pattern.commands[1] = CmdN(0)
    /\ dfg[1].hugr.nodes[1].operation = prepare_op
    /\ qubit_wires[0] = Wire(1, 0) /\ qubit_wires[1] = Wire(0, 1)
    /\ \A i \in DOMAIN qubit_wires : qubit_wires[i] # Wire(0, 0)

\* The number of nodes the commands of the pattern emitted.
EmittedByCommands ==
    StateAfter(pattern, Len(pattern.commands)).dfg[1].hugr.next_node_id - 1

\* C28: a graph convert returns holds exactly one Input node, with id 0, and
\* exactly one Output node, with id next_node_id - 1; its root is 0; it
\* holds 2 nodes more than the commands emitted and the fallbacks of the
\* finalization (a Const and a LoadConst per measured id without classical
\* wire) add.  For no inputs, the output 0 and the one command N(0) these
\* are 3 nodes, the Output node reading the PrepareQubit node.
C28_GraphFrame ==
    ReturnedOk =>
       LET h == result.hugr
           last == h.next_node_id - 1
       IN  /\ NodesTagged(h, "Input") = {0}
           /\ NodesTagged(h, "Output") = {last}
           /\ h.root = 0
           /\ HugrLen(h) = 2 + EmittedByCommands + 2 * Len(MissingAscending)
           /\ pattern = PatternOf(<<>>, <<0>>, <<CmdN(0)>>) =>
                 /\ HugrLen(h) = 3
                 /\ h.nodes[1].operation = prepare_op
                 /\ h.nodes[2].inputs = <<Wire(1, 0)>>

\* convert returned the graph of the pattern without inputs, with the output
\* 0 and the command N(0): Input, PrepareQubit and Output.
C28_Witness ==
    /\ ReturnedOk
    /\ pattern = PatternOf(<<>>, <<0>>, <<CmdN(0)>>)
    /\ DOMAIN result.hugr.nodes = {0, 1, 2}
    /\ result.hugr.nodes[0].operation = InputOp(<<>>)
    /\ result.hugr.nodes[1].operation = prepare_op
    /\ result.hugr.nodes[2].operation.tag = "Output"

\* C29: between the commands of a conversion on a fresh converter, no wire
\* held in qubit_wires is an input of a node emitted so far, and two ids of
\* qubit_wires never hold the same wire.
C29_LiveFrontier ==
    pc = "commands" =>
       /\ \A i \in DOMAIN qubit_wires : qubit_wires[i] \notin Consumed(dfg[1].hugr)
       /\ \A i, j \in DOMAIN qubit_wires : i # j => qubit_wires[i] # qubit_wires[j]

\* After E(0, 1) and a Clifford H on 0 over the inputs 0 and 1, 0 holds the
\* port of the H node and 1 port 1 of the CZ node; the wires they held
\* before are consumed.
C29_Witness ==
    /\ pc = "commands" /\ pos = 2
    /\ pattern.input_nodes = <<1, 0>>
    /\ pattern.commands[1] = CmdE(0, 1)
    /\ pattern.commands[2] = CmdC(0, <<"I", "H">>)
    /\ qubit_wires[0] = Wire(2, 0) /\ qubit_wires[1] = Wire(1, 1)
    /\ {Wire(0, 0), Wire(0, 1), Wire(1, 0)} \subseteq Consumed(dfg[1].hugr)

\* Every input wire of every node of h comes from a node of h with a smaller
\* id, and every LoadConst node of h loads a Const node of h with a smaller
\* id.
Backward(h) ==
    \A n \in DOMAIN h.nodes :
       /\ \A w \in Range(h.nodes[n].inputs) :
             w.node_id \in DOMAIN h.nodes /\ w.node_id < n
       /\ h.nodes[n].operation.tag = "LoadConst" =>
             /\ h.nodes[n].operation.const_node \in NodesTagged(h, "Const")
             /\ h.nodes[n].operation.const_node < n

\* C30: at every point of a conversion, in the graph under construction and
\* in the graph returned, every input wire names an existing node with a
\* smaller id than its consumer and every LoadConst names an existing Const
\* node with a smaller id.
C30_BackwardWiring ==
    /\ dfg # None => Backward(dfg[1].hugr)
    /\ ReturnedOk => Backward(result.hugr)

\* The ids the pattern measures more than once, counting the M commands that
\* are not skipped.
Remeasured ==
    {k \in {pattern.commands[i].node : i \in CmdsOfKind(pattern, "M")} :
        Cardinality(MeasuresOn(pattern, {k})) >= 2}

\* The positions of the inputs of the Output node of h that are the bit of a
\* Measure node emitted for the id k.
BitsOf(h, k) ==
    LET output == h.next_node_id - 1
    IN  {j \in 1..Len(h.nodes[output].inputs) :
            h.nodes[output].inputs[j] \in {Wire(n, 0) : n \in MeasureNodesFor(pattern, {k})}}

\* Between the commands, classical_wires changes at an M that is not skipped
\* and nowhere else: the id measured gets port 0 of the Measure node, the
\* node emitted last.  A correction whose domain is one id with a bit reads
\* the bit the id has when it is processed, and no step changes a node
\* emitted before.
MostRecentBit ==
    /\ HasNext =>
          /\ classical_wires' =
                IF MeasureOnBound
                THEN MapInsert(classical_wires, NextCmd.node,
                               Wire(dfg'[1].hugr.next_node_id - 1, 0))
                ELSE classical_wires
          /\ MeasureOnBound =>
                dfg'[1].hugr.next_node_id - 1 \in EmittedNamed("Measure")
          /\ \A n \in DOMAIN dfg[1].hugr.nodes : dfg'[1].hugr.nodes[n] = dfg[1].hugr.nodes[n]
    /\ CorrectionOnBound =>
          \A k \in DOMAIN classical_wires :
             NextCmd.domain = {k} =>
                dfg'[1].hugr.nodes[dfg'[1].hugr.next_node_id - 1].inputs[1]
                   = classical_wires[k]

\* convert returns Ok in this step.
ReturnsOk == pc = "commands" /\ pc' = "returned" /\ result'.tag = "Ok"

\* C31 as stated: classical_wires[k] always holds the bit of the most recent
\* Measure of k that was not skipped, a correction reads the bit current when
\* it is processed, and an id measured more than once gives the Output node
\* exactly one Bool input, the bit of its most recent Measure.
C31_RepeatedMeasurement ==
    [][/\ MostRecentBit
       /\ ReturnsOk =>
             \A k \in Remeasured :
                /\ Cardinality(BitsOf(result'.hugr, k)) = 1
                /\ \A j \in BitsOf(result'.hugr, k) :
                      result'.hugr.nodes[result'.hugr.next_node_id - 1].inputs[j]
                         = classical_wires[k]]_vars

\* C31 amended: classical_wires[k] always holds the bit of the most recent
\* Measure of k that was not skipped, a correction reads the bit current when
\* it is processed, and an id measured more than once gives the Output node
\* exactly one Bool input, the bit of its most recent Measure, unless it is
\* an output node: then it gives the Output node no Bool input.
C31_RepeatedMeasurementNotOutput ==
    [][/\ MostRecentBit
       /\ ReturnsOk =>
             \A k \in Remeasured :
                IF k \in Range(pattern.output_nodes)
                THEN BitsOf(result'.hugr, k) = {}
                ELSE /\ Cardinality(BitsOf(result'.hugr, k)) = 1
                     /\ \A j \in BitsOf(result'.hugr, k) :
                           result'.hugr.nodes[result'.hugr.next_node_id - 1].inputs[j]
                              = classical_wires[k]]_vars

\* convert returned Ok for N(0), M(0), X(1, {0}), N(0), M(0) over the input
\* and output 1: the ConditionalX reads the bit of the first Measure of 0,
\* classical_wires[0] is the bit of the second, and the Output node reads
\* the ConditionalX and the second bit.
C31_Witness ==
    /\ ReturnedOk
    /\ pattern.output_nodes = <<1>>
    /\ pattern.commands = <<CmdN(0), CmdM(0, "XY", 0), CmdX(1, {0}),
                            CmdN(0), CmdM(0, "YZ", 0)>>
    /\ result.hugr.nodes[3].operation = create_measure_op
    /\ result.hugr.nodes[4].inputs = <<Wire(3, 0), Wire(0, 0)>>
    /\ result.hugr.nodes[6].operation = create_measure_op
    /\ classical_wires[0] = Wire(6, 0)
    /\ result.hugr.nodes[7].inputs = <<Wire(4, 0), Wire(6, 0)>>

====
